---------------------------- MODULE Spec2Model ----------------------------
(***************************************************************************)
(* A model of the static-site build pipeline of src/main.py: front-matter  *)
(* splitting, page resolution and ordering, thumbnail derivation, link and *)
(* image rendering, and export.                                            *)
(*                                                                         *)
(* Text (a markdown document) is a sequence of symbols.  A symbol is       *)
(* either one character that the regular expressions of the program tell   *)
(* apart (a dash, a newline) or a chunk: a run of ordinary characters      *)
(* without a newline that holds at least one character other than a dash   *)
(* (a letter, a "date: ..." line, an image reference).                     *)
(***************************************************************************)
EXTENDS Integers, Sequences, FiniteSets, TLC

VARIABLES
    crop_call,      \* one call of calculate_crop: arguments and result
    fm_call,        \* one call of collect_frontmatter: argument and result
    render_call,    \* one call of CustomRenderer.link / CustomRenderer.image
    fs,             \* the file system: resolved path -> file
    fs0,            \* history: the file system as copy_source_to_target left it
    config_pages,   \* the "pages" list of config.yml (the page_data dicts)
    site_pages,     \* site.pages, the list of Page objects
    pc,             \* where main() is
    idx,            \* index of the page the running loop is at
    err,            \* the exception that aborted the build, if any
    log             \* history: every write and unlink since the initial copy

vars == <<crop_call, fm_call, render_call, fs, fs0, config_pages, site_pages,
          pc, idx, err, log>>

-----------------------------------------------------------------------------
(* Generic helpers *)

Range(s) == {s[i] : i \in DOMAIN s}

Min(S) == CHOOSE x \in S : \A y \in S : x <= y

Max(S) == CHOOSE x \in S : \A y \in S : x >= y

SeqsUpTo(S, n) == UNION {[1..k -> S] : k \in 0..n}

\* s contains pat as a contiguous run (Python's "pat in s")
Contains(s, pat) ==
    \E i \in 1..(Len(s) - Len(pat) + 1) : SubSeq(s, i, i + Len(pat) - 1) = pat

-----------------------------------------------------------------------------
(* calculate_crop *)

MaxDim == 6

Gravities == {"start", "end", "center", "None"}

calculate_crop_sign_slip(size, gravity) ==
    LET width == size[1]
        height == size[2]
        diff == width - height
    IN  IF diff > 0
        THEN IF gravity = "start" THEN <<0, 0, height, height>>
             ELSE IF gravity = "end" THEN <<diff, 0, diff + height, height>>
             ELSE <<diff \div 2, 0, (diff \div 2) + height, height>>
        ELSE IF diff < 0
        THEN IF gravity = "start" THEN <<0, 0, width, width>>
             ELSE IF gravity = "end" THEN <<0, diff, width, diff + width>>
             ELSE <<0, (-diff) \div 2, width, ((-diff) \div 2) + width>>
        ELSE <<0, 0, width, height>>

calculate_crop(size, gravity) ==
    LET width == size[1]
        height == size[2]
        diff == width - height
    IN  IF diff > 0
        THEN IF gravity = "start" THEN <<0, 0, height, height>>
             ELSE IF gravity = "end" THEN <<diff, 0, diff + height, height>>
             ELSE <<diff \div 2, 0, (diff \div 2) + height, height>>
        ELSE IF diff < 0
        THEN IF gravity = "start" THEN <<0, 0, width, width>>
             ELSE IF gravity = "end" THEN <<0, -diff, width, (-diff) + width>>
             ELSE <<0, (-diff) \div 2, width, ((-diff) \div 2) + width>>
        ELSE <<0, 0, width, height>>

NoCropCall == [size |-> <<1, 1>>, gravity |-> "None", crop |-> <<>>, returned |-> FALSE]

CalculateCrop ==
    /\ ~crop_call.returned
    /\ crop_call' = [crop_call EXCEPT !.crop = calculate_crop(crop_call.size, crop_call.gravity),
                                      !.returned = TRUE]
    /\ UNCHANGED <<fm_call, render_call, fs, fs0, config_pages, site_pages, pc, idx, err, log>>

-----------------------------------------------------------------------------
(* RE_FRONTMATTER and collect_frontmatter *)

MaxText == 9

FenceMin == 3

\* a document symbol; only c matters for a plain character
Sym(c, date, feats, ref) == [c |-> c, date |-> date, feats |-> feats, ref |-> ref]

NoDate == [kind |-> "none", v |-> 0]

NoRef == [abs |-> FALSE, parts |-> <<>>]

Plain(c) == Sym(c, NoDate, <<>>, NoRef)

Dash == Plain("-")

NL == Plain("\n")

\* the position after the run of dashes that starts at i
DashEnd(t, i) ==
    CHOOSE j \in i..(Len(t) + 1) :
        /\ \A k \in i..(j - 1) : t[k] = Dash
        /\ (j = Len(t) + 1 \/ t[j] # Dash)

\* (-{3,})\n at position i: the position after the newline, 0 when it does not match
Fence(t, i) ==
    LET j == DashEnd(t, i)
    IN  IF j - i >= FenceMin /\ j <= Len(t) /\ t[j] = NL THEN j + 1 ELSE 0

\* RE_FRONTMATTER.match(t): the optional group is tried first; custom is lazy, so
\* it ends at the first newline that a closing fence follows
RE_FRONTMATTER(t) ==
    LET open == Fence(t, 1)
        ends == IF open = 0 THEN {}
                ELSE {e \in open..Len(t) : t[e] = NL /\ Fence(t, e + 1) # 0}
    IN  IF ends = {}
        THEN [matched |-> FALSE, custom |-> <<>>, content |-> t]
        ELSE LET e == Min(ends)
             IN  [matched |-> TRUE,
                  custom |-> SubSeq(t, open, e - 1),
                  content |-> SubSeq(t, Fence(t, e + 1), Len(t))]

\* yaml.safe_load results: None, a mapping, or any other value (a scalar, a list)
YamlNone == [kind |-> "none", keys |-> {}, date |-> NoDate, features |-> <<>>, raw |-> <<>>]

EmptyMap == [kind |-> "map", keys |-> {}, date |-> NoDate, features |-> <<>>, raw |-> <<>>]

LineStarts(s) == {i \in 1..Len(s) : i = 1 \/ s[i - 1] = NL}

LineAt(s, st) ==
    LET stops == {j \in st..Len(s) : s[j] = NL} \cup {Len(s) + 1}
    IN  SubSeq(s, st, Min(stops) - 1)

\* yaml.safe_load(s).  Blank lines carry nothing and a leading "---" line only
\* starts the document.  A document of "key: value" lines is a mapping (the last
\* line of a key wins); no document at all is None; anything else is some other
\* value, kept by its text.
safe_load(s) ==
    LET filled == {st \in LineStarts(s) : LineAt(s, st) # <<>>}
        marker == IF filled # {} /\ LineAt(s, Min(filled)) = <<Dash, Dash, Dash>>
                  THEN {Min(filled)} ELSE {}
        body == filled \ marker
        IsKey(st) == Len(LineAt(s, st)) = 1 /\ LineAt(s, st)[1].c \in {"date", "features"}
        Last(k) == LineAt(s, Max({st \in body : LineAt(s, st)[1].c = k}))[1]
        keys == {LineAt(s, st)[1].c : st \in body}
    IN  IF body = {} THEN YamlNone
        ELSE IF \A st \in body : IsKey(st)
        THEN [kind |-> "map", keys |-> keys,
              date |-> IF "date" \in keys THEN Last("date").date ELSE NoDate,
              features |-> IF "features" \in keys THEN Last("features").feats ELSE <<>>,
              raw |-> <<>>]
        ELSE [kind |-> "other", keys |-> {}, date |-> NoDate, features |-> <<>>, raw |-> s]

\* Python truthiness of a safe_load result (an "other" value is a non-empty string or list here)
Truthy(y) == (y.kind = "map" /\ y.keys # {}) \/ y.kind = "other"

collect_frontmatter(raw_content) ==
    LET match == RE_FRONTMATTER(raw_content)
        custom == IF match.matched THEN match.custom ELSE <<>>
        loaded == safe_load(custom)
    IN  [custom |-> IF Truthy(loaded) THEN loaded ELSE EmptyMap,
         content |-> match.content]

NoFmCall == [raw_content |-> <<>>, result |-> [custom |-> EmptyMap, content |-> <<>>],
             returned |-> FALSE]

CollectFrontmatter ==
    /\ ~fm_call.returned
    /\ fm_call' = [fm_call EXCEPT !.result = collect_frontmatter(fm_call.raw_content),
                                  !.returned = TRUE]
    /\ UNCHANGED <<crop_call, render_call, fs, fs0, config_pages, site_pages, pc, idx, err, log>>

-----------------------------------------------------------------------------
(* CustomRenderer.link and CustomRenderer.image *)

\* A URL is a sequence of symbols: the characters ":", "/" and "." and chunks
\* of letters ("file", "a", "webp", ...).

MaxUrl == 5

UrlAlphabet == {"file", ":", "/", ".", "a"}

RelTarget == " rel=\"noopener\" target=\"_blank\""

\* HTMLRenderer.safe_url of mistune, which link and image call: a URL of a
\* harmful protocol ("file:" stands for javascript:, vbscript:, file: and data:)
\* is replaced, any other URL is kept
safe_url(url) ==
    IF Len(url) >= 2 /\ url[1] = "file" /\ url[2] = ":" THEN <<"#harmful-link">> ELSE url

\* os.path.splitext: the extension starts at the last dot, if that dot is in the
\* last path component and some character other than a dot precedes it there
splitext(p) ==
    LET sepIndex == Max({i \in 1..Len(p) : p[i] = "/"} \cup {0})
        dotIndex == Max({i \in 1..Len(p) : p[i] = "."} \cup {0})
    IN  IF dotIndex > sepIndex /\ \E k \in (sepIndex + 1)..(dotIndex - 1) : p[k] # "."
        THEN <<SubSeq(p, 1, dotIndex - 1), SubSeq(p, dotIndex, Len(p))>>
        ELSE <<p, <<>>>>

link_double_slash(text, url, title) ==
    <<"<a href=\"">> \o safe_url(url) \o <<"\"">>
    \o (IF title # <<>> THEN <<" title=\"">> \o title \o <<"\"">> ELSE <<>>)
    \o (IF Contains(url, <<"/", "/">>) THEN <<RelTarget>> ELSE <<>>)
    \o <<">">> \o text \o <<"</a>">>

link(text, url, title) ==
    <<"<a href=\"">> \o safe_url(url) \o <<"\"">>
    \o (IF title # <<>> THEN <<" title=\"">> \o title \o <<"\"">> ELSE <<>>)
    \o (IF Contains(url, <<":", "/", "/">>) THEN <<RelTarget>> ELSE <<>>)
    \o <<">">> \o text \o <<"</a>">>

\* text holds no tags here, so striptags(text) = text
image(text, url, title) ==
    LET safe == safe_url(url)
        stem == splitext(safe)[1]
        alt == text
        img == <<"<img src=\"">> \o stem \o <<"-w1024", ".", "webp", "\" alt=\"">> \o alt \o <<"\"">>
               \o <<" title=\"">> \o (IF title # <<>> THEN title ELSE alt) \o <<"\"">>
               \o <<" loading=\"lazy\" />">>
        s == link(img, stem \o <<".", "webp">>, <<>>)
    IN  <<"</p><figure>">> \o s \o <<"<figcaption>">> \o alt \o <<"</figcaption></figure><p>">>

NoRenderCall == [fn |-> "link", text |-> <<>>, url |-> <<>>, title |-> <<>>,
                 out |-> <<>>, returned |-> FALSE]

RenderLink ==
    /\ ~render_call.returned
    /\ render_call.fn = "link"
    /\ render_call' = [render_call EXCEPT
            !.out = link(render_call.text, render_call.url, render_call.title),
            !.returned = TRUE]
    /\ UNCHANGED <<crop_call, fm_call, fs, fs0, config_pages, site_pages, pc, idx, err, log>>

RenderImage ==
    /\ ~render_call.returned
    /\ render_call.fn = "image"
    /\ render_call' = [render_call EXCEPT
            !.out = image(render_call.text, render_call.url, render_call.title),
            !.returned = TRUE]
    /\ UNCHANGED <<crop_call, fm_call, fs, fs0, config_pages, site_pages, pc, idx, err, log>>

-----------------------------------------------------------------------------
(* Paths (pathlib) and the file system *)

\* A path is the sequence of its components from the file system's root; a
\* component (a name) is a sequence of symbols: chunks of letters ("post",
\* "img", "-w1024", "..") and extensions (".md", ".html", ...).

Extensions == {".md", ".html", ".png", ".webp", ".xml"}

workspace_dir == << <<"ws">> >>

input_dir == workspace_dir \o << <<"input">> >>

output_dir == workspace_dir \o << <<"output">> >>

RECURSIVE SortedSeq(_)
SortedSeq(S) == IF S = {} THEN <<>> ELSE <<Min(S)>> \o SortedSeq(S \ {Min(S)})

\* the components of a string of path symbols: split at "/", empty components dropped
PathParts(u) ==
    LET starts == {i \in 1..Len(u) : u[i] # "/" /\ (i = 1 \/ u[i - 1] = "/")}
        Part(i) == SubSeq(u, i, Min({j \in i..Len(u) : u[j] = "/"} \cup {Len(u) + 1}) - 1)
        order == SortedSeq(starts)
    IN  [k \in 1..Len(order) |-> Part(order[k])]

\* str.lstrip("/")
lstrip(u) ==
    LET first == Min({i \in 1..Len(u) : u[i] # "/"} \cup {Len(u) + 1})
    IN  SubSeq(u, first, Len(u))

\* PurePath.suffix: of the last component, when something precedes it there
suffix(path) ==
    IF path = <<>> THEN ""
    ELSE LET name == path[Len(path)]
         IN  IF Len(name) >= 2 /\ name[Len(name)] \in Extensions THEN name[Len(name)] ELSE ""

\* PurePath.stem: the last component without its suffix
stem(path) ==
    LET name == path[Len(path)]
    IN  IF suffix(path) = "" THEN name ELSE SubSeq(name, 1, Len(name) - 1)

parent(path) == SubSeq(path, 1, Len(path) - 1)

with_suffix(path, ext) == parent(path) \o <<stem(path) \o <<ext>>>>

\* path / ref: an absolute right operand replaces the left one
Join(path, ref) == IF ref.abs THEN ref.parts ELSE path \o ref.parts

\* what the operating system opens for a path: ".." steps to the parent
\* (every directory named on the way exists in the trees modelled)
RECURSIVE Resolve(_)
Resolve(path) ==
    IF path = <<>> THEN <<>>
    ELSE LET front == Resolve(parent(path))
             last == path[Len(path)]
         IN  IF last = <<"..">>
             THEN (IF front = <<>> THEN <<>> ELSE parent(front))
             ELSE front \o <<last>>

Under(p, dir) == Len(p) > Len(dir) /\ SubSeq(p, 1, Len(dir)) = dir

is_file(files, path) == Resolve(path) \in DOMAIN files

is_dir(files, path) == \E f \in DOMAIN files : Under(f, Resolve(path))

ImageFile == [kind |-> "image", text |-> <<>>]

TextFile(t) == [kind |-> "text", text |-> t]

\* the file system with file f at path (created or overwritten)
Written(files, path, f) ==
    [q \in DOMAIN files \cup {Resolve(path)} |-> IF q = Resolve(path) THEN f ELSE files[q]]

\* the file system without the file at path
Unlinked(files, path) == [q \in DOMAIN files \ {Resolve(path)} |-> files[q]]

NoErr == [in |-> "", exc |-> ""]

LogEntry(op, path, fn, page) == [op |-> op, path |-> Resolve(path), fn |-> fn, page |-> page]

-----------------------------------------------------------------------------
(* main: copy_source_to_target *)

PureIdle ==
    /\ crop_call = NoCropCall
    /\ fm_call = NoFmCall
    /\ render_call = NoRenderCall

\* shutil.rmtree(target_dir); shutil.copytree(source_dir, target_dir)
copy_source_to_target(files) ==
    LET kept == {q \in DOMAIN files : ~Under(q, output_dir)}
        copied == {q \in DOMAIN files : Under(q, input_dir)}
        Target(q) == output_dir \o SubSeq(q, Len(input_dir) + 1, Len(q))
    IN  [q \in kept \cup {Target(c) : c \in copied} |->
            IF Under(q, output_dir)
            THEN files[input_dir \o SubSeq(q, Len(output_dir) + 1, Len(q))]
            ELSE files[q]]

CopySourceToTarget ==
    /\ pc = "copy_source_to_target"
    /\ fs' = copy_source_to_target(fs)
    /\ fs0' = fs'
    /\ pc' = "parse_config"
    /\ idx' = 1
    /\ UNCHANGED <<crop_call, fm_call, render_call, config_pages, site_pages, err, log>>

-----------------------------------------------------------------------------
(* parse_config *)

\* a page_data dict of the config and the Page built from it: a key that the
\* dict does not hold has the default of the Page field (src and dst unset: <<>>)
PageData(url, date) ==
    [url |-> url, date |-> date, content |-> <<>>, custom |-> YamlNone,
     src |-> <<>>, dst |-> <<>>]

page_source_md_suffix(url) ==
    LET path == output_dir \o PathParts(lstrip(url))
    IN  IF suffix(path) = ".md" THEN with_suffix(path, ".md")
        ELSE path \o << <<"index", ".md">> >>

\* lines 115-119: the source file a page's url names
page_source(url) ==
    LET path == output_dir \o PathParts(lstrip(url))
    IN  IF suffix(path) = ".html" THEN with_suffix(path, ".md")
        ELSE path \o << <<"index", ".md">> >>

parse_page_merge_keys(files, page_data) ==
    LET src == page_source(page_data.url)
    IN  IF ~is_file(files, src)
        THEN [page_data EXCEPT !.src = <<>>]
        ELSE LET fm == collect_frontmatter(files[Resolve(src)].text)
             IN  [page_data EXCEPT
                    !.src = src,
                    !.dst = with_suffix(src, ".html"),
                    !.date = IF "date" \in fm.custom.keys THEN fm.custom.date ELSE @,
                    !.custom = fm.custom,
                    !.content = fm.content]

\* lines 115-128: one iteration of the loop over the page_data dicts
parse_page(files, page_data) ==
    LET src == page_source(page_data.url)
    IN  IF ~is_file(files, src)
        THEN [page_data EXCEPT !.src = <<>>]
        ELSE LET fm == collect_frontmatter(files[Resolve(src)].text)
             IN  [page_data EXCEPT
                    !.src = src,
                    !.dst = with_suffix(src, ".html"),
                    !.custom = fm.custom,
                    !.content = fm.content]

ParseConfigPage ==
    /\ pc = "parse_config"
    /\ idx <= Len(config_pages)
    /\ config_pages' = [config_pages EXCEPT ![idx] = parse_page(fs, @)]
    /\ idx' = idx + 1
    /\ UNCHANGED <<crop_call, fm_call, render_call, fs, fs0, site_pages, pc, err, log>>

\* datetime(1970, 1, 1, 0, 0, tzinfo=UTC)
Epoch == [kind |-> "datetime", v |-> 0]

\* the sort key: p.date or the epoch
SortKey(p) == IF p.date.kind = "none" THEN Epoch ELSE p.date

\* a datetime.date and a datetime.datetime do not compare: TypeError
Comparable(a, b) == a.kind = b.kind

\* sorted(...) compares its elements until it has linked them all in one order,
\* so it raises when two of them do not compare
sorted_raises(pages) ==
    \E i, j \in DOMAIN pages : ~Comparable(SortKey(pages[i]), SortKey(pages[j]))

\* sorted(pages, key=..., reverse=True): descending, equal keys in their first order
sorted_pages(pages) ==
    LET n == Len(pages)
        Before(j, i) == \/ SortKey(pages[j]).v > SortKey(pages[i]).v
                        \/ (SortKey(pages[j]).v = SortKey(pages[i]).v /\ j < i)
        Rank(i) == 1 + Cardinality({j \in 1..n : Before(j, i)})
    IN  [k \in 1..n |-> pages[CHOOSE i \in 1..n : Rank(i) = k]]

\* lines 130-138
ParseConfigSort ==
    /\ pc = "parse_config"
    /\ idx > Len(config_pages)
    /\ IF sorted_raises(config_pages)
       THEN /\ pc' = "aborted"
            /\ err' = [in |-> "parse_config", exc |-> "TypeError"]
            /\ UNCHANGED site_pages
       ELSE /\ site_pages' = sorted_pages(config_pages)
            /\ pc' = IF Len(config_pages) > 0 THEN "transform_pages" ELSE "export_sitemap"
            /\ UNCHANGED err
    /\ idx' = 1
    /\ UNCHANGED <<crop_call, fm_call, render_call, fs, fs0, config_pages, log>>

-----------------------------------------------------------------------------
(* transform_pages *)

\* The effect of a call on the file system: st = [fs, log, err], err the name of
\* the exception the call raised ("" when it returned).

Raise(st, exc) == [st EXCEPT !.err = exc]

\* Image.open(image_file): the exception it raises, "" when it opens an image
image_open(files, image_file) ==
    IF is_file(files, image_file)
    THEN (IF files[Resolve(image_file)].kind = "image" THEN "" ELSE "UnidentifiedImageError")
    ELSE (IF is_dir(files, image_file) THEN "IsADirectoryError" ELSE "FileNotFoundError")

\* lines 165-172
generate_article_thumbnails(st, image_file, page) ==
    LET full == parent(image_file) \o <<stem(image_file) \o <<".webp">>>>
        small == parent(image_file) \o <<stem(image_file) \o <<"-w1024", ".webp">>>>
    IN  IF image_open(st.fs, image_file) # "" THEN Raise(st, image_open(st.fs, image_file))
        ELSE [fs |-> Unlinked(Written(Written(st.fs, full, ImageFile), small, ImageFile),
                              image_file),
              log |-> st.log \o <<LogEntry("write", full, "transform_pages", page),
                                  LogEntry("write", small, "transform_pages", page),
                                  LogEntry("unlink", image_file, "transform_pages", page)>>,
              err |-> ""]

\* lines 176-184; the crop that calculate_crop(img, gravity) picks changes the
\* pixels of the -w720 variant only, not the files written
generate_banner_thumbnails(st, image_file, gravity, page) ==
    LET full == parent(image_file) \o <<stem(image_file) \o <<".webp">>>>
        small == parent(image_file) \o <<stem(image_file) \o <<"-w720", ".webp">>>>
    IN  IF image_open(st.fs, image_file) # "" THEN Raise(st, image_open(st.fs, image_file))
        ELSE [fs |-> Unlinked(Written(Written(st.fs, full, ImageFile), small, ImageFile),
                              image_file),
              log |-> st.log \o <<LogEntry("write", full, "transform_pages", page),
                                  LogEntry("write", small, "transform_pages", page),
                                  LogEntry("unlink", image_file, "transform_pages", page)>>,
              err |-> ""]

\* RE_EXTRACT_IMAGES.findall(content): the file names of the image references, in order
extracted_image_files(content) ==
    LET refs == SelectSeq(content, LAMBDA x : x.c = "img")
    IN  [k \in 1..Len(refs) |-> refs[k].ref]

\* lines 204-209: FileNotFoundError is caught and the file skipped
RECURSIVE ArticleImages(_, _, _, _)
ArticleImages(st, parent_dir, rel_files, page) ==
    IF rel_files = <<>> \/ st.err # "" THEN st
    ELSE LET r == generate_article_thumbnails(st, Join(parent_dir, Head(rel_files)), page)
         IN  ArticleImages(IF r.err = "FileNotFoundError" THEN st ELSE r,
                           parent_dir, Tail(rel_files), page)

\* lines 216-226: a feature without a banner is passed over
RECURSIVE Banners(_, _, _, _)
Banners(st, parent_dir, features, page) ==
    IF features = <<>> \/ st.err # "" THEN st
    ELSE LET feature == Head(features)
             r == generate_banner_thumbnails(st, Join(parent_dir, feature.banner),
                                             feature.banner_gravity, page)
         IN  Banners(IF feature.banner = NoRef \/ r.err = "FileNotFoundError" THEN st ELSE r,
                     parent_dir, Tail(features), page)

\* markdown(content): an image reference is rendered as a figure, every other
\* symbol stands for its own rendering
markdown(content) ==
    [k \in DOMAIN content |->
        IF content[k].c = "img" THEN [content[k] EXCEPT !.c = "figure"] ELSE content[k]]

\* lines 200-226: one iteration of the loop over site.pages; the result is the
\* effect on the files with the page as the iteration left it
transform_page(st, page, i) ==
    LET st1 == IF page.content # <<>>
               THEN ArticleImages(st, parent(page.src), extracted_image_files(page.content), i)
               ELSE st
        rendered == [page EXCEPT !.content = markdown(page.content)]
        st2 == IF ~Truthy(page.custom) THEN st1
               ELSE IF page.custom.kind # "map" THEN Raise(st1, "AttributeError")
               ELSE Banners(st1, parent(page.src), page.custom.features, i)
    IN  IF st1.err # ""
        THEN [st |-> st1, page |-> page]
        ELSE [st |-> st2, page |-> rendered]

TransformPage ==
    /\ pc = "transform_pages"
    /\ idx <= Len(site_pages)
    /\ LET r == transform_page([fs |-> fs, log |-> log, err |-> ""], site_pages[idx], idx)
       IN  /\ fs' = r.st.fs
           /\ log' = r.st.log
           /\ site_pages' = [site_pages EXCEPT ![idx] = r.page]
           /\ IF r.st.err # ""
              THEN /\ pc' = "aborted"
                   /\ err' = [in |-> "transform_pages", exc |-> r.st.err]
                   /\ UNCHANGED idx
              ELSE /\ pc' = IF idx = Len(site_pages) THEN "export_pages" ELSE pc
                   /\ idx' = IF idx = Len(site_pages) THEN 1 ELSE idx + 1
                   /\ UNCHANGED err
    /\ UNCHANGED <<crop_call, fm_call, render_call, fs0, config_pages>>

-----------------------------------------------------------------------------
(* export_pages, export_sitemap, export_feed *)

\* lines 237-245: one iteration of the loop over site.pages; the template's
\* output stands in the file as the page's rendered content
export_page(st, page, i) ==
    IF page.src = <<>> THEN st
    ELSE LET written == Written(st.fs, page.dst, TextFile(page.content))
             wlog == st.log \o <<LogEntry("write", page.dst, "export_pages", i)>>
         IN  IF ~is_file(written, page.src)
             THEN [fs |-> written, log |-> wlog, err |-> "FileNotFoundError"]
             ELSE [fs |-> Unlinked(written, page.src),
                   log |-> wlog \o <<LogEntry("unlink", page.src, "export_pages", i)>>,
                   err |-> ""]

ExportPage ==
    /\ pc = "export_pages"
    /\ idx <= Len(site_pages)
    /\ LET r == export_page([fs |-> fs, log |-> log, err |-> ""], site_pages[idx], idx)
       IN  /\ fs' = r.fs
           /\ log' = r.log
           /\ IF r.err # ""
              THEN /\ pc' = "aborted"
                   /\ err' = [in |-> "export_pages", exc |-> r.err]
                   /\ UNCHANGED idx
              ELSE /\ pc' = IF idx = Len(site_pages) THEN "export_sitemap" ELSE pc
                   /\ idx' = IF idx = Len(site_pages) THEN 1 ELSE idx + 1
                   /\ UNCHANGED err
    /\ UNCHANGED <<crop_call, fm_call, render_call, fs0, config_pages, site_pages>>

\* lines 252-258
ExportSitemap ==
    /\ pc = "export_sitemap"
    /\ fs' = Written(fs, output_dir \o << <<"sitemap", ".xml">> >>, TextFile(<<>>))
    /\ log' = log \o <<LogEntry("write", output_dir \o << <<"sitemap", ".xml">> >>,
                                "export_sitemap", 0)>>
    /\ pc' = "export_feed"
    /\ UNCHANGED <<crop_call, fm_call, render_call, fs0, config_pages, site_pages, idx, err>>

\* lines 265-271
ExportFeed ==
    /\ pc = "export_feed"
    /\ fs' = Written(fs, output_dir \o << <<"atom", ".xml">> >>, TextFile(<<>>))
    /\ log' = log \o <<LogEntry("write", output_dir \o << <<"atom", ".xml">> >>,
                                "export_feed", 0)>>
    /\ pc' = "done"
    /\ UNCHANGED <<crop_call, fm_call, render_call, fs0, config_pages, site_pages, idx, err>>

-----------------------------------------------------------------------------
(* Inputs: documents, trees and configs *)

MaxPages == 2

ImgSym(ref) == Sym("img", NoDate, <<>>, ref)

DateSym(d) == Sym("date", d, <<>>, NoRef)

FeaturesSym(feats) == Sym("features", NoDate, feats, NoRef)

Rel(parts) == [abs |-> FALSE, parts |-> parts]

Abs(parts) == [abs |-> TRUE, parts |-> parts]

Feature(banner, gravity) == [banner |-> banner, banner_gravity |-> gravity]

\* a document: a front-matter block of the given lines (none when front is
\* empty), then the body
Doc(front, body) ==
    LET RECURSIVE FrontLines(_)
        FrontLines(ls) == IF ls = <<>> THEN <<>> ELSE <<Head(ls), NL>> \o FrontLines(Tail(ls))
    IN  IF front = <<>> THEN body
        ELSE <<Dash, Dash, Dash, NL>> \o FrontLines(front) \o <<Dash, Dash, Dash, NL>> \o body

\* the file system that holds exactly the given <<path, file>> pairs
Tree(pairs) ==
    [q \in {pr[1] : pr \in pairs} |-> (CHOOSE pr \in pairs : pr[1] = q)[2]]

\* every choice of one file, or none, for each path of a function path -> files
Trees(choices) ==
    LET Picks == [DOMAIN choices -> BOOLEAN]
        Files(on) == {f \in [{q \in DOMAIN choices : on[q]} -> UNION {choices[q] : q \in DOMAIN choices}] :
                        \A q \in DOMAIN f : f[q] \in choices[q]}
    IN  UNION {Files(on) : on \in Picks}

Configs(urls, dates) == SeqsUpTo({PageData(u, d) : u \in urls, d \in dates}, MaxPages)

InitBuild(trees, configs) ==
    /\ PureIdle
    /\ fs \in trees
    /\ fs0 = <<>>
    /\ config_pages \in configs
    /\ site_pages = <<>>
    /\ pc = "copy_source_to_target"
    /\ idx = 1
    /\ err = NoErr
    /\ log = <<>>

BuildIdle ==
    /\ fs = <<>>
    /\ fs0 = <<>>
    /\ config_pages = <<>>
    /\ site_pages = <<>>
    /\ pc = "off"
    /\ idx = 1
    /\ err = NoErr
    /\ log = <<>>

InFile(name) == input_dir \o <<name>>

OutFile(name) == output_dir \o <<name>>

-----------------------------------------------------------------------------
(* Specifications *)

\* calculate_crop on every size up to MaxDim and every gravity
InitCrop ==
    /\ crop_call \in [size : (1..MaxDim) \X (1..MaxDim), gravity : Gravities,
                      crop : {<<>>}, returned : {FALSE}]
    /\ fm_call = NoFmCall
    /\ render_call = NoRenderCall
    /\ BuildIdle

SpecCrop == InitCrop /\ [][CalculateCrop]_vars

\* collect_frontmatter on every text of dashes, newlines and letters up to MaxText
InitFrontmatter ==
    /\ fm_call \in [raw_content : SeqsUpTo({Dash, NL, Plain("a")}, MaxText),
                    result : {NoFmCall.result}, returned : {FALSE}]
    /\ crop_call = NoCropCall
    /\ render_call = NoRenderCall
    /\ BuildIdle

SpecFrontmatter == InitFrontmatter /\ [][CollectFrontmatter]_vars

\* link and image on every URL up to MaxUrl symbols, with and without a title
InitRender ==
    /\ render_call \in [fn : {"link", "image"}, text : {<<"txt">>},
                        url : SeqsUpTo(UrlAlphabet, MaxUrl), title : {<<>>, <<"t">>},
                        out : {<<>>}, returned : {FALSE}]
    /\ crop_call = NoCropCall
    /\ fm_call = NoFmCall
    /\ BuildIdle

NextRender == RenderLink \/ RenderImage

SpecRender == InitRender /\ [][NextRender]_vars

\* main(): the build, one step of a loop at a time
Next ==
    \/ CopySourceToTarget
    \/ ParseConfigPage
    \/ ParseConfigSort
    \/ TransformPage
    \/ ExportPage
    \/ ExportSitemap
    \/ ExportFeed

\* a build whose pages, image references and banners may name files by
\* absolute paths and by paths with ".." steps
PlainDocs == {TextFile(Doc(<<>>, <<>>))}

ImgInput == InFile(<<"img", ".png">>)

EscapingRefs == {Rel(<< <<"img", ".png">> >>),
                 Rel(<< <<"..">>, <<"input">>, <<"img", ".png">> >>),
                 Abs(ImgInput)}

MainDocs ==
    {TextFile(Doc(<<>>, <<ImgSym(r)>>)) : r \in EscapingRefs}
    \cup {TextFile(Doc(<<FeaturesSym(<<Feature(r, "start")>>)>>, <<>>)) : r \in EscapingRefs}
    \cup PlainDocs

MainTrees ==
    Trees([q \in {InFile(<<"index", ".md">>), InFile(<<"post", ".md">>), ImgInput,
                  OutFile(<<"old", ".html">>)} |->
            IF q = InFile(<<"index", ".md">>) THEN MainDocs
            ELSE IF q = InFile(<<"post", ".md">>) THEN PlainDocs
            ELSE IF q = ImgInput THEN {ImageFile}
            ELSE {TextFile(<<>>)}])

MainUrls == {<<"/">>, <<"/", "post", ".html">>, <<"/", "..", "/", "input", "/", "post", ".html">>}

Init == InitBuild(MainTrees, Configs(MainUrls, {NoDate}))

Spec == Init /\ [][Next]_vars

\* parse_config: pages dated in the config and in front-matter, by a date
\* (datetime.date) or by a timestamp with a time zone (datetime.datetime)
Day(kind, v) == [kind |-> kind, v |-> v]

ParseDates == {NoDate, Day("date", 1), Day("date", 2), Day("datetime", 1)}

ParseTrees ==
    Trees([q \in {InFile(<<"index", ".md">>), InFile(<<"post", ".md">>)} |->
            IF q = InFile(<<"index", ".md">>)
            THEN PlainDocs \cup {TextFile(Doc(<<DateSym(Day("date", 2))>>, <<Plain("a")>>))}
            ELSE PlainDocs \cup {TextFile(Doc(<<DateSym(Day("date", 1))>>, <<Plain("a")>>))}])

ParseUrls == {<<"/">>, <<"/", "post", ".html">>}

InitParse == InitBuild(ParseTrees, Configs(ParseUrls, ParseDates))

SpecParse == InitParse /\ [][Next]_vars

\* parse_config: the urls a config may hold, against trees with and without
\* the files they name
ResolveUrls ==
    {<<"/">>, <<"/", "index", ".html">>, <<"/", "post", ".html">>,
     <<"/", "post", ".html", "/">>, <<"/", "blog", "/">>,
     <<"/", "blog", "/", "post", ".html">>, <<"/", ".html">>,
     <<"/", "..", "/", "input", "/", "post", ".html">>}

ResolveTrees ==
    Trees([q \in {InFile(<<"index", ".md">>), InFile(<<"post", ".md">>),
                  input_dir \o << <<"blog">>, <<"index", ".md">> >>} |-> PlainDocs])

InitResolve == InitBuild(ResolveTrees, Configs(ResolveUrls, {NoDate}))

SpecResolve == InitResolve /\ [][Next]_vars

\* transform_pages: inline images of several formats, present and missing
ThumbRefs == {Rel(<< <<"img", ".png">> >>), Rel(<< <<"img", ".webp">> >>),
              Rel(<< <<"missing", ".png">> >>)}

ThumbDocs ==
    {TextFile(Doc(<<>>, <<ImgSym(r)>>)) : r \in ThumbRefs}
    \cup {TextFile(Doc(<<>>, <<ImgSym(Rel(<< <<"img", ".png">> >>)), NL,
                             ImgSym(Rel(<< <<"img", ".png">> >>))>>))}
    \cup PlainDocs

ThumbTrees ==
    Trees([q \in {InFile(<<"index", ".md">>), InFile(<<"post", ".md">>),
                  InFile(<<"img", ".png">>), InFile(<<"img", ".webp">>)} |->
            IF q = InFile(<<"index", ".md">>) THEN ThumbDocs
            ELSE IF q = InFile(<<"post", ".md">>)
            THEN {TextFile(Doc(<<>>, <<ImgSym(Rel(<< <<"img", ".png">> >>))>>))}
            ELSE {ImageFile}])

InitThumbs == InitBuild(ThumbTrees, Configs(ParseUrls, {NoDate}))

SpecThumbs == InitThumbs /\ [][Next]_vars

\* transform_pages: banners, of pages that may show the same image inline
HeroRef == Rel(<< <<"hero", ".png">> >>)

BannerDocs ==
    {TextFile(Doc(<<FeaturesSym(<<Feature(HeroRef, g)>>)>>, body)) :
        g \in {"start", "None"}, body \in {<<>>, <<ImgSym(HeroRef)>>}}
    \cup {TextFile(Doc(<<FeaturesSym(<<Feature(NoRef, "None"), Feature(HeroRef, "end")>>)>>, <<>>))}
    \cup PlainDocs

BannerTrees ==
    Trees([q \in {InFile(<<"index", ".md">>), InFile(<<"post", ".md">>),
                  InFile(<<"hero", ".png">>)} |->
            IF q = InFile(<<"index", ".md">>) THEN BannerDocs
            ELSE IF q = InFile(<<"post", ".md">>)
            THEN {TextFile(Doc(<<FeaturesSym(<<Feature(HeroRef, "start")>>)>>, <<>>))}
            ELSE {ImageFile}])

InitBanner == InitBuild(BannerTrees, Configs(ParseUrls, {NoDate}))

SpecBanner == InitBanner /\ [][Next]_vars

\* export_pages: configs that may name a page twice
ExportUrls == {<<"/">>, <<"/", "index", ".html">>, <<"/", "post", ".html">>}

ExportTrees ==
    Trees([q \in {InFile(<<"index", ".md">>), InFile(<<"post", ".md">>)} |-> PlainDocs])

InitExport == InitBuild(ExportTrees, Configs(ExportUrls, {NoDate}))

SpecExport == InitExport /\ [][Next]_vars

-----------------------------------------------------------------------------
(* Claims *)

\* C1: for every size W x H (W, H >= 1) and every gravity, calculate_crop
\* returns a square of side min(W, H) that lies inside the image; when W > H
\* "start" puts it at the left edge and "end" at the right edge, when W < H
\* "start" puts it at the top and "end" at the bottom, any other gravity centres
\* it (the two margins differ by at most one pixel), and when W = H it is the
\* full image.
C1_CropIsAnchoredSquare ==
    crop_call.returned =>
        LET W == crop_call.size[1]
            H == crop_call.size[2]
            g == crop_call.gravity
            c == crop_call.crop
            side == IF W < H THEN W ELSE H
            Centred(lo, hi, total) == (total - hi) - lo \in {0, 1}
        IN  /\ c[3] - c[1] = side /\ c[4] - c[2] = side
            /\ 0 <= c[1] /\ 0 <= c[2] /\ c[3] <= W /\ c[4] <= H
            /\ W > H => /\ g = "start" => c[1] = 0
                        /\ g = "end" => c[1] = W - H
                        /\ g \notin {"start", "end"} => Centred(c[1], c[3], W)
            /\ W < H => /\ g = "start" => c[2] = 0
                        /\ g = "end" => c[2] = H - W
                        /\ g \notin {"start", "end"} => Centred(c[2], c[4], H)
            /\ W = H => c = <<0, 0, W, H>>

C1_TallImageCroppedAtEnd ==
    /\ crop_call.returned
    /\ crop_call.size = <<2, 5>>
    /\ crop_call.gravity = "end"
    /\ crop_call.crop = <<0, 3, 2, 5>>

\* a fence line at position st of t: three or more dashes, then a newline;
\* the position after it, 0 when there is none
FenceLineEnd(t, st) ==
    LET ends == {e \in (st + FenceMin)..Len(t) :
                    t[e] = NL /\ \A k \in st..(e - 1) : t[k] = Dash}
    IN  IF ends = {} THEN 0 ELSE Min(ends) + 1

\* C2: if the text does not open with a fence line, custom is the empty
\* mapping and content is the whole text; if it opens with a fence line that a
\* later fence line closes, custom is the YAML parse of the lines between the
\* two (the empty mapping when there are none or they are blank) and content is
\* the text after the closing fence line.
C2_FrontmatterSplitAtFences ==
    fm_call.returned =>
        LET t == fm_call.raw_content
            r == fm_call.result
            opened == FenceLineEnd(t, 1)
            closers == {st \in LineStarts(t) : st >= opened /\ FenceLineEnd(t, st) # 0}
            close == Min(closers)
            region == SubSeq(t, opened, close - 2)
            parsed == safe_load(region)
        IN  /\ opened = 0 => r.custom = EmptyMap /\ r.content = t
            /\ (opened # 0 /\ closers # {}) =>
                    /\ r.custom = IF Truthy(parsed) THEN parsed ELSE EmptyMap
                    /\ r.content = SubSeq(t, FenceLineEnd(t, close), Len(t))

\* the anchor's href: what stands between <a href=" and the next quote
HrefOf(out) ==
    LET a == CHOOSE i \in DOMAIN out : out[i] = "<a href=\""
        q == Min({j \in DOMAIN out : j > a /\ out[j] = "\""})
    IN  SubSeq(out, a + 1, q - 1)

Scheme == <<":", "/", "/">>

\* C9 (amended): the anchor that link emits carries rel="noopener"
\* target="_blank" exactly when the URL it is given contains "://"; the anchor
\* that image wraps around the image has as its target the image URL as
\* safe_url returns it (a URL of a harmful protocol replaced by #harmful-link)
\* with its extension replaced by .webp, and carries the attributes exactly
\* when that target contains "://".
C9_RelTargetIffScheme ==
    render_call.returned =>
        LET out == render_call.out
            target == splitext(safe_url(render_call.url))[1] \o <<".", "webp">>
        IN  IF render_call.fn = "link"
            THEN (RelTarget \in Range(out)) <=> Contains(render_call.url, Scheme)
            ELSE /\ HrefOf(out) = target
                 /\ (RelTarget \in Range(out)) <=> Contains(target, Scheme)

C9_ExternalImageOpensInNewContext ==
    /\ render_call.returned
    /\ render_call.fn = "image"
    /\ render_call.url = <<"a", ":", "/", "/", "a">>
    /\ RelTarget \in Range(render_call.out)

\* C9 as claimed: the anchor that image wraps around the image carries the
\* attributes exactly when the image URL with its extension replaced by .webp
\* contains "://" (and link's anchor exactly when its URL does).
C9_RelTargetIffSchemeOfImageUrl ==
    render_call.returned =>
        LET out == render_call.out
            target == splitext(render_call.url)[1] \o <<".", "webp">>
        IN  IF render_call.fn = "link"
            THEN (RelTarget \in Range(out)) <=> Contains(render_call.url, Scheme)
            ELSE (RelTarget \in Range(out)) <=> Contains(target, Scheme)

\* parse_config has returned site
ParseReturned ==
    \/ pc \in {"transform_pages", "export_pages", "export_sitemap", "export_feed", "done"}
    \/ (pc = "aborted" /\ err.in # "parse_config")

\* the fields of a page that nothing after parse_config changes
Descriptor(p) == [url |-> p.url, date |-> p.date, src |-> p.src, dst |-> p.dst]

\* C3: for every list of page descriptors, also one that mixes pages with and
\* without a date, parse_config returns normally, and site.pages is then in
\* non-increasing order of date, with every undated page after every dated
\* one, and holds exactly the descriptors of the config.
C3_PagesSortedByDate ==
    /\ ~(pc = "aborted" /\ err.in = "parse_config")
    /\ ParseReturned =>
        /\ \A i, j \in DOMAIN site_pages :
            /\ (i < j /\ site_pages[i].date # NoDate /\ site_pages[j].date # NoDate)
                    => site_pages[i].date.v >= site_pages[j].date.v
            /\ (site_pages[i].date = NoDate /\ site_pages[j].date # NoDate) => j < i
        /\ Len(site_pages) = Len(config_pages)
        /\ \E f \in [DOMAIN site_pages -> DOMAIN config_pages] :
            /\ \A i, j \in DOMAIN site_pages : i # j => f[i] # f[j]
            /\ \A i \in DOMAIN site_pages :
                    Descriptor(site_pages[i]) = Descriptor(config_pages[f[i]])

\* C4 (amended): when a page's source file exists, parse_config stores the
\* front-matter mapping as a whole in the page's custom field and the text
\* after the front-matter in its content field; the fields the config gives
\* (url, date) keep the config's values, so a date given only in front-matter
\* is not the date the page is sorted by.
C4_FrontmatterKeptUnderCustom ==
    [][(pc = "parse_config" /\ idx <= Len(config_pages)) =>
        LET before == config_pages[idx]
            after == config_pages'[idx]
            fm == collect_frontmatter(fs[Resolve(after.src)].text)
        IN  /\ after.url = before.url
            /\ after.date = before.date
            /\ after.src # <<>> => (after.custom = fm.custom /\ after.content = fm.content)
    ]_vars

C4_FrontmatterDateNotPageDate ==
    /\ pc = "transform_pages"
    /\ \E i \in DOMAIN site_pages :
        /\ site_pages[i].src # <<>>
        /\ site_pages[i].custom.date = Day("date", 2)
        /\ site_pages[i].date = NoDate
        /\ i > 1
        /\ site_pages[i - 1].date = Day("datetime", 1)

\* C4 as claimed: a front-matter key that names a page field (date) is the
\* value of that field of the resulting Page.
C4_FrontmatterDateIsPageDate ==
    \A i \in DOMAIN site_pages :
        (site_pages[i].src # <<>> /\ "date" \in site_pages[i].custom.keys)
            => site_pages[i].date = site_pages[i].custom.date

\* the last component of the url names an .html file
HtmlNamed(url) ==
    LET comps == PathParts(url)
    IN  /\ comps # <<>>
        /\ Len(comps[Len(comps)]) >= 2
        /\ comps[Len(comps)][Len(comps[Len(comps)])] = ".html"

\* name with its last symbol (its extension) replaced by ext
Renamed(path, ext) ==
    LET name == path[Len(path)]
    IN  SubSeq(path, 1, Len(path) - 1) \o <<SubSeq(name, 1, Len(name) - 1) \o <<ext>>>>

\* the resolution of the pages, given the source file each url is expected at
PagesResolved(Expected(_)) ==
    ParseReturned =>
        \A i \in DOMAIN site_pages :
            LET page == site_pages[i]
                expected == Expected(page.url)
            IN  /\ page.src = IF Resolve(expected) \in DOMAIN fs0 THEN expected ELSE <<>>
                /\ page.src # <<>> => page.dst = Renamed(page.src, ".html")
                /\ page.src = <<>> => page.dst = <<>>

\* C8 (amended): after parse_config, for every page: if the last path
\* component of its url (slashes at the end set aside) is a name with the
\* suffix .html, the expected source is the same-named .md file under the
\* output root, otherwise it is index.md inside the directory the url names;
\* src is that file exactly when it exists as a file and None otherwise; when
\* src is set dst is src with its extension replaced by .html, and a
\* source-less page has no dst.
C8_SourceResolvedFromUrl ==
    PagesResolved(LAMBDA url :
        IF HtmlNamed(url)
        THEN Renamed(output_dir \o PathParts(url), ".md")
        ELSE output_dir \o PathParts(url) \o << <<"index", ".md">> >>)

C8_HtmlUrlWithSlashResolved ==
    /\ ParseReturned
    /\ \E i \in DOMAIN site_pages :
        /\ site_pages[i].url = <<"/", "post", ".html", "/">>
        /\ site_pages[i].src = OutFile(<<"post", ".md">>)
        /\ site_pages[i].dst = OutFile(<<"post", ".html">>)

\* C8 as claimed: the expected source is the same-named .md file if the url
\* ends in .html, and index.md inside the url's directory otherwise.
C8_SourceResolvedFromUrlEnding ==
    PagesResolved(LAMBDA url :
        IF url # <<>> /\ url[Len(url)] = ".html"
        THEN Renamed(output_dir \o PathParts(url), ".md")
        ELSE output_dir \o PathParts(url) \o << <<"index", ".md">> >>)

\* transform_pages has returned
TransformReturned ==
    \/ pc \in {"export_pages", "export_sitemap", "export_feed", "done"}
    \/ (pc = "aborted" /\ err.in = "export_pages")

\* the text of the page's source file as parse_config read it
SourceText(page) == fs0[Resolve(page.src)].text

Sibling(file, tag) == parent(file) \o <<stem(file) \o tag>>

\* C5: after transform_pages, for every inline image reference of a page whose
\* file existed in the output tree, whatever its extension, <stem>.webp and
\* <stem>-w1024.webp exist beside it and the original no longer exists unless
\* it is one of the two; a reference to a file that does not exist is skipped:
\* it does not abort the build, and a build whose references all miss leaves
\* the file tree as it was.
C5_InlineImagesConverted ==
    /\ ~(pc = "aborted" /\ err.in = "transform_pages" /\ err.exc = "FileNotFoundError")
    /\ (pc = "export_pages" /\ idx = 1) =>
        LET Refs(page) == IF page.src = <<>> THEN {}
                          ELSE {Resolve(Join(parent(page.src), r)) :
                                  r \in Range(extracted_image_files(
                                          collect_frontmatter(SourceText(page)).content))}
            all == UNION {Refs(site_pages[i]) : i \in DOMAIN site_pages}
        IN  /\ \A file \in all \cap DOMAIN fs0 :
                /\ Sibling(file, <<".webp">>) \in DOMAIN fs
                /\ Sibling(file, <<"-w1024", ".webp">>) \in DOMAIN fs
                /\ \/ file \notin DOMAIN fs
                   \/ file \in {Sibling(file, <<".webp">>), Sibling(file, <<"-w1024", ".webp">>)}
            /\ all \cap DOMAIN fs0 = {} => fs = fs0

\* C6: after transform_pages, for every feature of a page's front-matter that
\* names a banner whose file existed in the output tree when transform_pages
\* started, <stem>.webp and <stem>-w720.webp exist, also when the same file is
\* an inline image or the banner of another feature or page.
C6_BannersConverted ==
    TransformReturned =>
        \A i \in DOMAIN site_pages :
            \A k \in DOMAIN site_pages[i].custom.features :
                LET banner == site_pages[i].custom.features[k].banner
                    file == Resolve(Join(parent(site_pages[i].src), banner))
                IN  (banner # NoRef /\ file \in DOMAIN fs0) =>
                        /\ Sibling(file, <<".webp">>) \in DOMAIN fs
                        /\ Sibling(file, <<"-w720", ".webp">>) \in DOMAIN fs

\* C7: for every list of page descriptors, also one in which two descriptors
\* resolve to the same source file, export_pages completes without error, and
\* for every page with a source it writes the page's destination once and
\* deletes the source after that write; for a page without a source it writes
\* and deletes nothing.
C7_EachPageExportedOnce ==
    /\ ~(pc = "aborted" /\ err.in = "export_pages")
    /\ pc \in {"export_sitemap", "export_feed", "done"} =>
        \A i \in DOMAIN site_pages :
            LET Ops(op) == {n \in DOMAIN log : /\ log[n].fn = "export_pages"
                                               /\ log[n].page = i
                                               /\ log[n].op = op}
            IN  IF site_pages[i].src = <<>>
                THEN Ops("write") = {} /\ Ops("unlink") = {}
                ELSE /\ Cardinality(Ops("write")) = 1
                     /\ Cardinality(Ops("unlink")) = 1
                     /\ \A w \in Ops("write"), u \in Ops("unlink") :
                            /\ log[w].path = Resolve(site_pages[i].dst)
                            /\ log[u].path = Resolve(site_pages[i].src)
                            /\ w < u

\* C10: after the initial copy, every file that the build writes or deletes
\* lies inside the output tree, whatever the page urls, image references and
\* banner references are (absolute paths and ".." steps included).
C10_WritesStayInOutput ==
    \A n \in DOMAIN log : Under(log[n].path, output_dir)

====
